---- MODULE Spec2Model ----
(***************************************************************************)
(* Model of the HLS proxy worker (src/worker.js).                          *)
(*                                                                         *)
(* Strings are sequences of character codes (the JavaScript code units of  *)
(* the strings the worker handles), so that btoa/atob, the regular         *)
(* expressions of the playlist rewriter and the path splitting are         *)
(* computed the way the code computes them.                                *)
(***************************************************************************)
EXTENDS Integers, Sequences, FiniteSets, Bags, TLC

(***************************************************************************)
(* Bounds of the model.                                                    *)
(***************************************************************************)
MaxStrLen == 4
MaxPieces == 4
MaxRequests == 3
MaxTicks == 1

(***************************************************************************)
(* Characters and string literals of the source.                           *)
(***************************************************************************)
Slash == 47
Hash == 35
Eq == 61
Plus == 43

S_file2 == <<47, 102, 105, 108, 101, 50, 47>>                       \* '/file2/'
S_storeSession == <<47, 115, 116, 111, 114, 101, 45, 115, 101, 115, 115, 105, 111, 110>> \* '/store-session'
S_stream == <<47, 115, 116, 114, 101, 97, 109, 47>>                 \* '/stream/'
S_health == <<47, 104, 101, 97, 108, 116, 104>>                     \* '/health'
S_m3u8 == <<46, 109, 51, 117, 56>>                                  \* '.m3u8'
S_ts == <<46, 116, 115>>                                            \* '.ts'
S_masterM3u8 == <<109, 97, 115, 116, 101, 114, 46, 109, 51, 117, 56>> \* 'master.m3u8'
S_indexM3u8 == <<105, 110, 100, 101, 120, 46, 109, 51, 117, 56>>    \* 'index.m3u8'
S_playlistM3u8 == <<112, 108, 97, 121, 108, 105, 115, 116, 46, 109, 51, 117, 56>> \* 'playlist.m3u8'
S_master == <<109, 97, 115, 116, 101, 114>>                         \* 'master'
S_index == <<105, 110, 100, 101, 120>>                              \* 'index'
S_unknown == <<117, 110, 107, 110, 111, 119, 110>>                  \* 'unknown'
S_dots == <<46, 46, 46>>                                            \* '...'
S_http == <<104, 116, 116, 112, 58, 47, 47>>                        \* 'http://'
S_https == <<104, 116, 116, 112, 115, 58, 47, 47>>                  \* 'https://'
S_low == <<108, 111, 119>>                                          \* 'low'
S_med == <<109, 101, 100>>                                          \* 'med'
S_high == <<104, 105, 103, 104>>                                    \* 'high'
S_pad == <<61, 61>>                                                 \* '=='

(***************************************************************************)
(* String operations of JavaScript used by the worker.                     *)
(***************************************************************************)
\* s.startsWith(p)
StartsWith(s, p) ==
    /\ Len(p) <= Len(s)
    /\ SubSeq(s, 1, Len(p)) = p

\* s.endsWith(p)
EndsWith(s, p) ==
    /\ Len(p) <= Len(s)
    /\ SubSeq(s, Len(s) - Len(p) + 1, Len(s)) = p

\* the sub occurs in s at (1-based) position i
OccursAt(s, sub, i) ==
    /\ i >= 1
    /\ i + Len(sub) - 1 <= Len(s)
    /\ SubSeq(s, i, i + Len(sub) - 1) = sub

\* s.includes(sub)
Includes(s, sub) == \E i \in 1..(Len(s) + 1) : OccursAt(s, sub, i)

\* s.lastIndexOf(c) for a single character, 1-based; 0 when c does not occur
\* (JavaScript's -1).
LastIndexOf(s, c) ==
    LET hits == {i \in 1..Len(s) : s[i] = c}
    IN  IF hits = {} THEN 0 ELSE CHOOSE i \in hits : \A j \in hits : j <= i

\* s.substring(0, n)
Substring0(s, n) == SubSeq(s, 1, IF n < Len(s) THEN n ELSE Len(s))

\* s.replace(sub, '') with a string pattern: the first occurrence only
ReplaceFirst(s, sub) ==
    LET hits == {i \in 1..Len(s) : OccursAt(s, sub, i)}
    IN  IF hits = {} \/ Len(sub) = 0 THEN s
        ELSE LET i == CHOOSE k \in hits : \A j \in hits : k <= j
             IN  SubSeq(s, 1, i - 1) \o SubSeq(s, i + Len(sub), Len(s))

\* s.split(c): the pieces between the occurrences of c (k pieces for k-1 hits)
RECURSIVE Split(_, _)
Split(s, c) ==
    LET hits == {i \in 1..Len(s) : s[i] = c}
    IN  IF hits = {} THEN <<s>>
        ELSE LET i == CHOOSE k \in hits : \A j \in hits : k <= j
             IN  <<SubSeq(s, 1, i - 1)>> \o Split(SubSeq(s, i + 1, Len(s)), c)

\* a.pop() as used on the result of split: the last piece
Pop(a) == a[Len(a)]

(***************************************************************************)
(* Addressing codec: btoa, the '=' stripping of the rewriter, and atob as  *)
(* the worker runtime defines it (forgiving-base64 decode).                *)
(***************************************************************************)
\* the base64 alphabet: A-Z a-z 0-9 + /
B64Char(i) ==
    IF i < 26 THEN 65 + i
    ELSE IF i < 52 THEN 97 + (i - 26)
    ELSE IF i < 62 THEN 48 + (i - 52)
    ELSE IF i = 62 THEN Plus ELSE Slash

IsB64Char(c) ==
    \/ c \in 65..90
    \/ c \in 97..122
    \/ c \in 48..57
    \/ c = Plus
    \/ c = Slash

B64Val(c) ==
    IF c \in 65..90 THEN c - 65
    ELSE IF c \in 97..122 THEN c - 97 + 26
    ELSE IF c \in 48..57 THEN c - 48 + 52
    ELSE IF c = Plus THEN 62 ELSE 63

\* btoa(s) for a string of code units below 256: three bytes become four
\* characters, a final group of one or two bytes is padded with '='.
RECURSIVE btoa(_)
btoa(s) ==
    IF Len(s) = 0 THEN <<>>
    ELSE IF Len(s) = 1 THEN
        <<B64Char(s[1] \div 4), B64Char((s[1] % 4) * 16), Eq, Eq>>
    ELSE IF Len(s) = 2 THEN
        <<B64Char(s[1] \div 4),
          B64Char((s[1] % 4) * 16 + (s[2] \div 16)),
          B64Char((s[2] % 16) * 4), Eq>>
    ELSE
        <<B64Char(s[1] \div 4),
          B64Char((s[1] % 4) * 16 + (s[2] \div 16)),
          B64Char((s[2] % 16) * 4 + (s[3] \div 64)),
          B64Char(s[3] % 64)>> \o btoa(SubSeq(s, 4, Len(s)))

\* t.replace(/=/g, '')
StripPad(t) == SelectSeq(t, LAMBDA c : c # Eq)

\* the encoder of the rewriter: btoa(s).replace(/=/g, '')
Encode(s) == StripPad(btoa(s))

\* ASCII whitespace, which atob removes before decoding
IsAsciiSpace(c) == c \in {9, 10, 12, 13, 32}

\* the bytes of a sequence of 6-bit values; a final group of two or three
\* values yields one or two bytes, the remaining bits are dropped
RECURSIVE DecodeVals(_)
DecodeVals(v) ==
    IF Len(v) < 2 THEN <<>>
    ELSE IF Len(v) = 2 THEN <<v[1] * 4 + (v[2] \div 16)>>
    ELSE IF Len(v) = 3 THEN
        <<v[1] * 4 + (v[2] \div 16), (v[2] % 16) * 16 + (v[3] \div 4)>>
    ELSE
        <<v[1] * 4 + (v[2] \div 16),
          (v[2] % 16) * 16 + (v[3] \div 4),
          (v[3] % 4) * 64 + v[4]>> \o DecodeVals(SubSeq(v, 5, Len(v)))

\* atob(data) of the Workers runtime, the forgiving-base64 decode of the
\* HTML standard: remove ASCII whitespace; when the length is a multiple of 4
\* remove one or two trailing '='; fail when the length is 1 mod 4 or a
\* character outside the alphabet remains (InvalidCharacterError).
atob(data) ==
    LET d1 == SelectSeq(data, LAMBDA c : ~IsAsciiSpace(c))
        n1 == Len(d1)
        d2 == IF n1 % 4 = 0 /\ n1 >= 1 /\ d1[n1] = Eq
              THEN IF n1 >= 2 /\ d1[n1 - 1] = Eq
                   THEN SubSeq(d1, 1, n1 - 2)
                   ELSE SubSeq(d1, 1, n1 - 1)
              ELSE d1
        bad == \/ Len(d2) % 4 = 1
               \/ \E i \in 1..Len(d2) : ~IsB64Char(d2[i])
    IN  IF bad THEN [ok |-> FALSE, val |-> <<>>]
        ELSE [ok |-> TRUE,
              val |-> DecodeVals([i \in 1..Len(d2) |-> B64Val(d2[i])])]

\* the decoder of the proxy route: atob(`${token}==`)
Decode(token) == atob(token \o S_pad)

(***************************************************************************)
(* Manifest rewriter: the two regular expressions of proxyM3U8Playlist and *)
(* their replacement callbacks, computed on the playlist text.             *)
(***************************************************************************)
\* \s of a JavaScript regular expression, among the code units below 256
IsSpace(c) == c \in {9, 10, 11, 12, 13, 32, 160}

\* the line terminators after which ^ matches under the m flag
IsLineTerminator(c) == c \in {10, 13}

IsDigit(c) == c \in 48..57

\* ^ under the m flag: the start of the text or just after a line terminator
AtLineStart(text, i) == i = 1 \/ IsLineTerminator(text[i - 1])

\* the last index of the run of non-whitespace characters that starts at i
\* (i - 1 when text[i] is whitespace or i is past the end)
RECURSIVE RunEnd(_, _)
RunEnd(text, i) ==
    IF i > Len(text) \/ IsSpace(text[i]) THEN i - 1 ELSE RunEnd(text, i + 1)

\* https?:\/\/[^\s]+ at i: the index of the last matched character, 0 when
\* the alternative does not match
MatchAbsolute(text, i) ==
    LET head == IF OccursAt(text, S_https, i) THEN Len(S_https)
                ELSE IF OccursAt(text, S_http, i) THEN Len(S_http)
                ELSE 0
        e == RunEnd(text, i + head)
    IN  IF head > 0 /\ e >= i + head THEN e ELSE 0

\* [^/\s][^\s]*<suffix> at i, the star greedy: the match ends with the last
\* occurrence of the suffix in the run of non-whitespace that starts at i,
\* behind the first character; 0 when the alternative does not match
MatchRelative(text, i, suffix) ==
    LET e == RunEnd(text, i)
        hits == {k \in (i + 1)..e :
                    /\ k + Len(suffix) - 1 <= e
                    /\ OccursAt(text, suffix, k)}
    IN  IF i > Len(text) \/ text[i] = Slash \/ IsSpace(text[i]) \/ hits = {}
        THEN 0
        ELSE (CHOOSE k \in hits : \A j \in hits : j <= k) + Len(suffix) - 1

\* ^(?!#)(https?:\/\/[^\s]+|[^/\s][^\s]*<suffix>) at i: the index of the last
\* matched character, 0 when there is no match at i
MatchReference(text, i, suffix) ==
    IF i > Len(text) \/ ~AtLineStart(text, i) \/ text[i] = Hash THEN 0
    ELSE IF MatchAbsolute(text, i) > 0 THEN MatchAbsolute(text, i)
    ELSE MatchRelative(text, i, suffix)

\* (\d+p?|low|med|high)\/ at k: the matched group, <<>> when none
QualityGroupAt(m, k) ==
    LET RECURSIVE DigitsEnd(_)
        DigitsEnd(j) == IF j <= Len(m) /\ IsDigit(m[j]) THEN DigitsEnd(j + 1) ELSE j - 1
        d == DigitsEnd(k)
        word(w) == OccursAt(m, w \o <<Slash>>, k)
    IN  IF d >= k /\ d + 1 <= Len(m) /\ m[d + 1] = Slash THEN SubSeq(m, k, d)
        ELSE IF d >= k /\ d + 2 <= Len(m) /\ m[d + 1] = 112 /\ m[d + 2] = Slash
             THEN SubSeq(m, k, d + 1)
        ELSE IF word(S_low) THEN S_low
        ELSE IF word(S_med) THEN S_med
        ELSE IF word(S_high) THEN S_high
        ELSE <<>>

\* match.match(/\/(\d+p?|low|med|high)\//): group 1 of the leftmost match, or
\* 'unknown' when there is none
DetectQuality(m) ==
    LET hits == {k \in 1..Len(m) : m[k] = Slash /\ QualityGroupAt(m, k + 1) # <<>>}
    IN  IF hits = {} THEN S_unknown
        ELSE QualityGroupAt(m, (CHOOSE k \in hits : \A j \in hits : k <= j) + 1)

\* the replacement callback of the master playlist
MasterReplacement(match, sessionPath, origin) ==
    origin \o S_file2 \o sessionPath \o <<Slash>> \o Encode(DetectQuality(match))
           \o <<Slash>> \o Encode(S_indexM3u8) \o S_m3u8

\* the replacement callback of a quality-specific playlist without the
\* split('/').pop(): the whole match is encoded
MediaReplacement_KeepsPath(match, quality, sessionPath, origin) ==
    origin \o S_file2 \o sessionPath \o <<Slash>> \o Encode(quality)
           \o <<Slash>> \o Encode(match)

\* the replacement callback of a quality-specific playlist
MediaReplacement(match, quality, sessionPath, origin) ==
    origin \o S_file2 \o sessionPath \o <<Slash>> \o Encode(quality)
           \o <<Slash>> \o Encode(Pop(Split(match, Slash)))

\* text.replace(regex, callback) with the g flag, from position i on
RECURSIVE ReplaceAll(_, _, _, _, _, _)
ReplaceAll(text, i, filename, quality, sessionPath, origin) ==
    IF i > Len(text) THEN <<>>
    ELSE LET master == filename = S_masterM3u8
             e == MatchReference(text, i, IF master THEN S_m3u8 ELSE S_ts)
         IN  IF e = 0
             THEN <<text[i]>> \o ReplaceAll(text, i + 1, filename, quality, sessionPath, origin)
             ELSE (IF master
                   THEN MasterReplacement(SubSeq(text, i, e), sessionPath, origin)
                   ELSE MediaReplacement(SubSeq(text, i, e), quality, sessionPath, origin))
                  \o ReplaceAll(text, e + 1, filename, quality, sessionPath, origin)

\* the lines of a playlist text
Lines(text) == Split(text, 10)

\* the rewriting of proxyM3U8Playlist: the rewritten playlist text
RewritePlaylist(originalPlaylist, filename, quality, sessionPath, origin) ==
    ReplaceAll(originalPlaylist, 1, filename, quality, sessionPath, origin)

(***************************************************************************)
(* Session store.                                                          *)
(***************************************************************************)
\* 24 * 60 * 60 * 1000 milliseconds
SessionTTL == 24 * 60 * 60 * 1000

\* what sessionStore.get returns for a key that is not in the map
NoSession == [originalUrl |-> <<>>, metadata |-> "", timestamp |-> 0 - 1, expiresAt |-> 0 - 1]

\* the record storeSession puts into the map at time t (both Date.now() calls
\* of one synchronous call read the same clock); a metadata argument left
\* out takes the default {}
SessionRecord(originalUrl, metadata, t) ==
    [originalUrl |-> originalUrl,
     metadata |-> IF metadata = "undefined" THEN "{}" ELSE metadata,
     timestamp |-> t,
     expiresAt |-> t + SessionTTL]

\* storeSession as a field-by-field update of an entry that exists: the new
\* URL and times over the metadata of the earlier write
storeSession_Merge(store, sessionId, originalUrl, metadata, t) ==
    IF store[sessionId] = NoSession
    THEN [store EXCEPT ![sessionId] = SessionRecord(originalUrl, metadata, t)]
    ELSE [store EXCEPT ![sessionId] =
             [SessionRecord(originalUrl, metadata, t)
                 EXCEPT !.metadata = store[sessionId].metadata]]

\* storeSession: one sessionStore.set of a complete record
storeSession(store, sessionId, originalUrl, metadata, t) ==
    [store EXCEPT ![sessionId] = SessionRecord(originalUrl, metadata, t)]

\* getSession without the expiry check
getSession_NeverExpires(store, sessionId, t) ==
    [session |-> store[sessionId], store |-> store]

\* getSession: the session and the store after the call (an expired entry is
\* deleted by the read)
getSession(store, sessionId, t) ==
    LET session == store[sessionId]
    IN  IF session = NoSession
        THEN [session |-> NoSession, store |-> store]
        ELSE IF session.expiresAt # 0 /\ t > session.expiresAt
        THEN [session |-> NoSession, store |-> [store EXCEPT ![sessionId] = NoSession]]
        ELSE [session |-> session, store |-> store]

(***************************************************************************)
(* Responses.  kind names the body, data carries the field of the body the *)
(* claims speak of, cors tells whether the CORS headers have been set.     *)
(***************************************************************************)
NoRequest == [method |-> "", path |-> <<>>, json |-> "", sessionId |-> <<>>,
              originalUrl |-> <<>>, metadata |-> ""]

NewResponse(status, kind, data) ==
    [status |-> status, kind |-> kind, data |-> data, cors |-> FALSE]

NoResponse == NewResponse(0, "none", <<>>)

\* addCorsHeaders that leaves the error responses without the headers
addCorsHeaders_SkipErrors(response) ==
    IF response.status >= 400 THEN response ELSE [response EXCEPT !.cors = TRUE]

\* addCorsHeaders sets every header of corsHeaders on the response
addCorsHeaders(response) == [response EXCEPT !.cors = TRUE]

\* what a handler hands back to the event loop: a response, or a suspension
\* (pc) on request.json(), on an upstream fetch or on response.text()
Returned(response, store) ==
    [pc |-> "idle", response |-> response, store |-> store, session |-> NoSession,
     filename |-> <<>>, quality |-> <<>>, target |-> <<>>]

Suspended(pc, store, session, filename, quality, target) ==
    [pc |-> pc, response |-> NoResponse, store |-> store, session |-> session,
     filename |-> filename, quality |-> quality, target |-> target]

(***************************************************************************)
(* Handlers, up to their first suspension.                                 *)
(***************************************************************************)
\* handleStoreSession up to await request.json()
handleStoreSession(request, store) ==
    IF request.method # "POST"
    THEN Returned(addCorsHeaders(NewResponse(405, "Method not allowed", <<>>)), store)
    ELSE Suspended("json", store, NoSession, <<>>, <<>>, <<>>)

\* handleStoreSession from the result of request.json() on
storeSessionBody(request, store, t) ==
    IF request.json # "object"
    THEN Returned(addCorsHeaders(NewResponse(400, "Invalid JSON payload", <<>>)), store)
    ELSE IF request.sessionId = <<>> \/ request.originalUrl = <<>>
    THEN Returned(addCorsHeaders(
             NewResponse(400, "sessionId and originalUrl are required", <<>>)), store)
    ELSE Returned(addCorsHeaders(NewResponse(200, "success", request.sessionId)),
                  storeSession(store, request.sessionId, request.originalUrl,
                               request.metadata, t))

\* originalUrl.substring(0, originalUrl.lastIndexOf('/'))
BaseUrl(originalUrl) == SubSeq(originalUrl, 1, LastIndexOf(originalUrl, Slash) - 1)

\* proxyVideoSegment: the URL it fetches
SegmentUrl(originalUrl, filename) == BaseUrl(originalUrl) \o <<Slash>> \o filename

\* proxyM3U8Playlist: the URL it fetches
PlaylistUrl(originalUrl, filename, quality) ==
    IF filename = S_masterM3u8 THEN originalUrl
    ELSE IF filename = S_indexM3u8 \/ filename = S_playlistM3u8
    THEN BaseUrl(originalUrl) \o <<Slash>> \o quality \o <<Slash>> \o S_indexM3u8
    ELSE originalUrl

\* the test of handleDatacrateProxy for a video segment
IsSegmentName(filename) ==
    \/ EndsWith(filename, S_ts)
    \/ /\ ~Includes(filename, S_m3u8)
       /\ ~Includes(filename, S_master)
       /\ ~Includes(filename, S_index)

\* the 404 of handleDatacrateProxy for a session that is missing or expired
SessionNotFound(sessionPath) ==
    NewResponse(404, "Session not found or expired", Substring0(sessionPath, 20) \o S_dots)

\* handleDatacrateProxy with the session looked up before the tokens are
\* decoded
handleDatacrateProxy_LookupFirst(request, store, t) ==
    LET pathParts == Split(request.path, Slash)
    IN  IF Len(pathParts) < 5
        THEN Returned(addCorsHeaders(NewResponse(400, "Invalid URL format", <<>>)), store)
        ELSE LET sessionPath == pathParts[3]
                 got == getSession(store, sessionPath, t)
                 quality == Decode(pathParts[4])
                 filename == Decode(ReplaceFirst(pathParts[5], S_m3u8))
             IN  IF ~quality.ok \/ ~filename.ok
                 THEN Returned(addCorsHeaders(
                          NewResponse(400, "Failed to decode URL", <<>>)), got.store)
                 ELSE IF got.session = NoSession
                 THEN Returned(addCorsHeaders(SessionNotFound(sessionPath)), got.store)
                 ELSE IF IsSegmentName(filename.val)
                 THEN Suspended("fetchSegment", got.store, got.session, filename.val,
                                quality.val,
                                SegmentUrl(got.session.originalUrl, filename.val))
                 ELSE Suspended("fetchPlaylist", got.store, got.session, filename.val,
                                quality.val,
                                PlaylistUrl(got.session.originalUrl, filename.val,
                                            quality.val))

\* handleDatacrateProxy up to the upstream fetch of proxyVideoSegment or
\* proxyM3U8Playlist
handleDatacrateProxy(request, store, t) ==
    LET pathParts == Split(request.path, Slash)
    IN  IF Len(pathParts) < 5
        THEN Returned(addCorsHeaders(NewResponse(400, "Invalid URL format", <<>>)), store)
        ELSE LET sessionPath == pathParts[3]
                 qualityB64 == pathParts[4]
                 filenameB64 == pathParts[5]
                 quality == Decode(qualityB64)
                 filename == Decode(ReplaceFirst(filenameB64, S_m3u8))
                 got == getSession(store, sessionPath, t)
             IN  IF ~quality.ok \/ ~filename.ok
                 THEN Returned(addCorsHeaders(
                          NewResponse(400, "Failed to decode URL", <<>>)), store)
                 ELSE IF got.session = NoSession
                 THEN Returned(addCorsHeaders(SessionNotFound(sessionPath)), got.store)
                 ELSE IF IsSegmentName(filename.val)
                 THEN Suspended("fetchSegment", got.store, got.session, filename.val,
                                quality.val,
                                SegmentUrl(got.session.originalUrl, filename.val))
                 ELSE Suspended("fetchPlaylist", got.store, got.session, filename.val,
                                quality.val,
                                PlaylistUrl(got.session.originalUrl, filename.val,
                                            quality.val))

\* url.pathname.split('/').filter(Boolean)
NonEmptyParts(path) == SelectSeq(Split(path, Slash), LAMBDA x : x # <<>>)

\* handleLegacyProxy
handleLegacyProxy(request, store) ==
    IF Len(NonEmptyParts(request.path)) < 5
    THEN Returned(addCorsHeaders(NewResponse(400, "Invalid legacy URL format", <<>>)), store)
    ELSE Returned(addCorsHeaders(NewResponse(410, "Legacy format deprecated", <<>>)), store)

\* handleHealth
handleHealth(store) == Returned(addCorsHeaders(NewResponse(200, "ok", <<>>)), store)

\* the fetch handler of the worker, up to the first suspension
fetch(request, store, t) ==
    IF request.method = "OPTIONS"
    THEN Returned(addCorsHeaders(NewResponse(200, "null", <<>>)), store)
    ELSE IF StartsWith(request.path, S_storeSession) THEN handleStoreSession(request, store)
    ELSE IF StartsWith(request.path, S_file2) THEN handleDatacrateProxy(request, store, t)
    ELSE IF StartsWith(request.path, S_stream) THEN handleLegacyProxy(request, store)
    ELSE IF request.path = S_health THEN handleHealth(store)
    ELSE Returned(addCorsHeaders(NewResponse(200, "HLS Proxy Worker - Ready", <<>>)), store)

\* proxyVideoSegment after its fetch: the upstream answered ok, answered with
\* an error status, or the fetch failed
segmentResponse(filename, upstream) ==
    IF upstream = "ok"
    THEN addCorsHeaders(NewResponse(200, "segment", filename))
    ELSE addCorsHeaders(NewResponse(404, "Segment not available", filename))

\* proxyM3U8Playlist after response.text()
playlistResponse(originalPlaylist, filename, quality, sessionPath, origin) ==
    addCorsHeaders(NewResponse(200, "playlist",
        RewritePlaylist(originalPlaylist, filename, quality, sessionPath, origin)))

\* the catch of proxyM3U8Playlist
playlistError(filename) ==
    addCorsHeaders(NewResponse(500, "Playlist not available", filename))

VARIABLES cs, ctoken, cdec, cpc,
          rbody, rn, rfile, rquality, rout, rpc,
          sessionStore, now, nticks, handlers, lastReq, lastResp, nreq, lastWrite,
          served, expected

codecVars == <<cs, ctoken, cdec, cpc>>
rwVars == <<rbody, rn, rfile, rquality, rout, rpc>>
mainVars == <<sessionStore, now, nticks, handlers, lastReq, lastResp, nreq, lastWrite,
              served, expected>>
vars == <<codecVars, rwVars, mainVars>>

(***************************************************************************)
(* The codec on its own: a string is typed in, encoded as the rewriter     *)
(* encodes it and decoded as the proxy route decodes it.                   *)
(***************************************************************************)
\* the characters the codec is exercised on: ASCII without NUL
CodecChars == {1, 46, 63, 112, 127}

CodecIdle ==
    /\ cs = <<>>
    /\ ctoken = <<>>
    /\ cdec = [ok |-> FALSE, val |-> <<>>]
    /\ cpc = "input"

CodecInput ==
    /\ cpc = "input"
    /\ Len(cs) < MaxStrLen
    /\ \E c \in CodecChars : cs' = Append(cs, c)
    /\ UNCHANGED <<ctoken, cdec, cpc>>
    /\ UNCHANGED <<rwVars, mainVars>>

CodecEncode ==
    /\ cpc = "input"
    /\ ctoken' = Encode(cs)
    /\ cpc' = "encoded"
    /\ UNCHANGED <<cs, cdec>>
    /\ UNCHANGED <<rwVars, mainVars>>

CodecDecode ==
    /\ cpc = "encoded"
    /\ cdec' = Decode(ctoken)
    /\ cpc' = "decoded"
    /\ UNCHANGED <<cs, ctoken>>
    /\ UNCHANGED <<rwVars, mainVars>>

(***************************************************************************)
(* The rewriter on its own: an upstream playlist text is put together from *)
(* pieces and rewritten for a requested filename and quality.              *)
(***************************************************************************)
\* new URL(request.url).origin of the proxy
ProxyOrigin == <<104, 116, 116, 112, 58, 47, 47, 112>>              \* 'http://p'
\* the session id of the requests of the rewriter and end-to-end runs
SessionS == <<83>>                                                  \* 'S'
Q720p == <<55, 50, 48, 112>>                                        \* '720p'

\* the pieces upstream playlists are put together from:
\* '#', LF, ' ', '/', 'https://h/', '720p/', 'a', '.ts', 'index.m3u8', '?k'
RwPieces ==
    { <<35>>, <<10>>, <<32>>, <<47>>,
      <<104, 116, 116, 112, 115, 58, 47, 47, 104, 47>>,
      <<55, 50, 48, 112, 47>>,
      <<97>>,
      S_ts,
      S_indexM3u8,
      <<63, 107>> }

RwFilenames == {S_masterM3u8, S_indexM3u8}
RwQualities == {Q720p, S_low}

RwIdle ==
    /\ rbody = <<>>
    /\ rn = 0
    /\ rfile = <<>>
    /\ rquality = <<>>
    /\ rout = <<>>
    /\ rpc = "build"

\* one more piece of the upstream playlist
RwAppend ==
    /\ rpc = "build"
    /\ rn < MaxPieces
    /\ \E p \in RwPieces : rbody' = rbody \o p
    /\ rn' = rn + 1
    /\ UNCHANGED <<rfile, rquality, rout, rpc>>
    /\ UNCHANGED <<codecVars, mainVars>>

\* proxyM3U8Playlist rewrites the text it fetched
RwRewrite ==
    /\ rpc = "build"
    /\ \E f \in RwFilenames, q \in RwQualities :
          /\ rfile' = f
          /\ rquality' = q
          /\ rout' = RewritePlaylist(rbody, f, q, SessionS, ProxyOrigin)
    /\ rpc' = "done"
    /\ UNCHANGED <<rbody, rn>>
    /\ UNCHANGED <<codecVars, mainVars>>

(***************************************************************************)
(* The worker: requests arrive, handlers run to their next suspension, the *)
(* clock advances.  Handlers of different requests interleave only at the  *)
(* awaits (request.json(), fetch, response.text()).                        *)
(***************************************************************************)
SidA == <<115, 65>>                                                 \* 'sA'
SidB == <<115, 66>>                                                 \* 'sB'
Url1 == <<104, 116, 116, 112, 58, 47, 47, 111, 47, 118, 47, 109, 46, 109, 51, 117, 56>> \* 'http://o/v/m.m3u8'
Url2 == <<104, 116, 116, 112, 58, 47, 47, 111, 47, 119, 47, 109, 46, 109, 51, 117, 56>> \* 'http://o/w/m.m3u8'
Seg1 == <<115, 101, 103, 49, 46, 116, 115>>                         \* 'seg1.ts'
Seg001 == <<115, 101, 103, 48, 48, 49, 46, 116, 115>>               \* 'seg001.ts'

\* the session ids requests carry
AllSids == {SidA, SidB}

Get(path) == [method |-> "GET", path |-> path, json |-> "", sessionId |-> <<>>,
              originalUrl |-> <<>>, metadata |-> ""]
Options(path) == [Get(path) EXCEPT !.method = "OPTIONS"]
Post(json, sessionId, originalUrl, metadata) ==
    [method |-> "POST", path |-> S_storeSession, json |-> json, sessionId |-> sessionId,
     originalUrl |-> originalUrl, metadata |-> metadata]

File2Path(sessionPath, qualityB64, filenameB64) ==
    S_file2 \o sessionPath \o <<Slash>> \o qualityB64 \o <<Slash>> \o filenameB64

\* POST /store-session with a body that stores, one that lacks a field and
\* one that is no JSON; any other method
StoreRequests ==
    { Post("object", SidA, Url1, "undefined"),
      Post("object", SidA, Url2, "m1"),
      Post("object", SidA, <<>>, "undefined"),
      Post("invalid", <<>>, <<>>, ""),
      Get(S_storeSession) }

\* GET /file2/...: tokens the rewriter produces ('720p', 'seg1.ts',
\* 'index.m3u8' with the '.m3u8' suffix, 'seg001.ts'), a token that is no
\* base64 ('!'), an id that is never stored, and a path of fewer than 5 parts
ProxyRequests ==
    { Get(File2Path(SidA, Encode(Q720p), Encode(Seg1))),
      Get(File2Path(SidA, Encode(Q720p), Encode(S_indexM3u8) \o S_m3u8)),
      Get(File2Path(SidA, Encode(Q720p), Encode(Seg001))),
      Get(File2Path(SidA, <<33>>, Encode(Seg1))),
      Get(File2Path(SidB, Encode(Q720p), Encode(Seg1))),
      Get(S_file2 \o SidA) }

OtherRequests ==
    { Options(File2Path(SidA, Encode(Q720p), Encode(Seg1))),
      Options(<<Slash, 42>>),
      Get(S_stream \o <<97>>),
      Get(S_stream \o <<97, 47, 98, 47, 99, 47, 100>>),
      Get(S_health),
      Get(<<Slash>>) }

Requests == StoreRequests \cup ProxyRequests \cup OtherRequests

\* what the upstream serves as a media playlist
UpstreamPlaylists ==
    { <<35, 69, 88, 84, 77, 51, 85, 10, 115, 101, 103, 49, 46, 116, 115>>,  \* '#EXTM3U' LF 'seg1.ts'
      <<115, 101, 103, 48, 48, 49, 46, 116, 115, 10, 47, 120, 47, 115, 101, 103, 50, 46, 116, 115>> } \* 'seg001.ts' LF '/x/seg2.ts'

\* a handler suspended at an await: where it waits and what it holds
Suspension(pc, request, session, filename, quality, target) ==
    [pc |-> pc, request |-> request, session |-> session, filename |-> filename,
     quality |-> quality, target |-> target]

\* the suspended handlers
Waiting == BagToSet(handlers)

MainIdle ==
    /\ sessionStore = [s \in AllSids |-> NoSession]
    /\ now = 0
    /\ nticks = 0
    /\ handlers = EmptyBag
    /\ lastReq = NoRequest
    /\ lastResp = NoResponse
    /\ nreq = 0
    /\ lastWrite = [s \in AllSids |-> NoSession]
    /\ served = [target |-> <<>>, body |-> <<>>]
    /\ expected = <<>>

InitRewrite == CodecIdle /\ RwIdle /\ MainIdle

NextRewrite ==
    \/ RwAppend
    \/ RwRewrite

SpecRewrite == InitRewrite /\ [][NextRewrite]_vars

(***************************************************************************)
(* Properties of the rewriter, line by line.                               *)
(***************************************************************************)
IsBlankLine(l) == \A i \in 1..Len(l) : IsSpace(l[i])
IsCommentLine(l) == Len(l) > 0 /\ l[1] = Hash
IsReferenceLine(l) == ~IsBlankLine(l) /\ ~IsCommentLine(l)
HasNoSpace(l) == \A i \in 1..Len(l) : ~IsSpace(l[i])

\* the text of l behind its last '/'
LastComponent(l) == SubSeq(l, LastIndexOf(l, Slash) + 1, Len(l))

\* '<proxy-origin>/file2/<sessionId>/'
ProxyPrefix(sessionPath) == ProxyOrigin \o S_file2 \o sessionPath \o <<Slash>>

\* an absolute http(s) URL: the scheme and at least one more character
IsAbsoluteUrl(l) ==
    /\ HasNoSpace(l)
    /\ \/ StartsWith(l, S_http) /\ Len(l) > Len(S_http)
       \/ StartsWith(l, S_https) /\ Len(l) > Len(S_https)

\* a relative path (no leading '/') that names a file ending in the suffix
IsRelativePath(l, suffix) ==
    /\ HasNoSpace(l)
    /\ Len(l) > Len(suffix)
    /\ l[1] # Slash
    /\ l[1] # Hash
    /\ EndsWith(l, suffix)

\* a resolution token: digits, then an optional 'p'
IsResolution(q) ==
    /\ Len(q) > 0
    /\ IsDigit(q[1])
    /\ \A i \in 1..Len(q) : IsDigit(q[i]) \/ (i = Len(q) /\ q[i] = 112)

\* '<q>/index.m3u8' with q a resolution token
IsVariantLine(l) ==
    /\ EndsWith(l, <<Slash>> \o S_indexM3u8)
    /\ IsResolution(SubSeq(l, 1, Len(l) - Len(S_indexM3u8) - 1))

VariantQuality(l) == SubSeq(l, 1, Len(l) - Len(S_indexM3u8) - 1)

\* C3: in a master manifest whose reference lines are '<q>/index.m3u8', the
\* i-th reference line becomes '{origin}/file2/S/{enc(q_i)}/{enc("index.m3u8")}.m3u8'
\* and the '#' lines are unchanged.
C3_MasterRewrite ==
    (/\ rpc = "done"
     /\ rfile = S_masterM3u8
     /\ \A i \in 1..Len(Lines(rbody)) :
           IsReferenceLine(Lines(rbody)[i]) => IsVariantLine(Lines(rbody)[i]))
    => /\ Len(Lines(rout)) = Len(Lines(rbody))
       /\ \A i \in 1..Len(Lines(rbody)) :
             LET l == Lines(rbody)[i]
             IN  Lines(rout)[i] =
                    IF IsReferenceLine(l)
                    THEN ProxyPrefix(SessionS) \o Encode(VariantQuality(l))
                         \o <<Slash>> \o Encode(S_indexM3u8) \o S_m3u8
                    ELSE l

\* C4: in a media manifest every line that is an absolute URL or a relative
\* path ending in '.ts' becomes '{origin}/file2/S/{enc(q)}/{enc(basename)}',
\* basename the last path component of the line, with no '.m3u8' suffix.
C4_MediaRewrite ==
    (rpc = "done" /\ rfile # S_masterM3u8)
    => /\ Len(Lines(rout)) = Len(Lines(rbody))
       /\ \A i \in 1..Len(Lines(rbody)) :
             LET l == Lines(rbody)[i]
             IN  (IsAbsoluteUrl(l) \/ IsRelativePath(l, S_ts))
                 => Lines(rout)[i] =
                       ProxyPrefix(SessionS) \o Encode(rquality) \o <<Slash>>
                       \o Encode(LastComponent(l))

\* a media manifest with a nested relative segment and an absolute URL with a
\* query has been rewritten
C4_Witness ==
    /\ rpc = "done"
    /\ rfile = S_indexM3u8
    /\ \E i \in 1..Len(Lines(rbody)) :
          /\ IsRelativePath(Lines(rbody)[i], S_ts)
          /\ Includes(Lines(rbody)[i], <<Slash>>)
          /\ StartsWith(Lines(rout)[i], ProxyPrefix(SessionS))

\* the characters of a proxy URL behind the prefix: tokens and separators
IsProxyUrl(l, sessionPath) ==
    /\ StartsWith(l, ProxyPrefix(sessionPath))
    /\ LET rest == SubSeq(l, Len(ProxyPrefix(sessionPath)) + 1, Len(l))
           toks == IF EndsWith(rest, S_m3u8)
                   THEN SubSeq(rest, 1, Len(rest) - Len(S_m3u8)) ELSE rest
       IN  \A i \in 1..Len(toks) : IsB64Char(toks[i])

\* C5: every reference line of the upstream playlist is replaced in full by
\* a proxy URL, comment and blank lines are passed through in place.
C5_NoOriginLeak ==
    rpc = "done"
    => /\ Len(Lines(rout)) = Len(Lines(rbody))
       /\ \A i \in 1..Len(Lines(rbody)) :
             LET l == Lines(rbody)[i]
             IN  IF IsReferenceLine(l)
                 THEN IsProxyUrl(Lines(rout)[i], SessionS)
                 ELSE Lines(rout)[i] = l

\* the request arrives and its handler runs up to its first suspension
ReceiveRequest(request) ==
    LET out == fetch(request, sessionStore, now)
    IN  /\ nreq < MaxRequests
        /\ nreq' = nreq + 1
        /\ lastReq' = request
        /\ sessionStore' = out.store
        /\ IF out.pc = "idle"
           THEN /\ lastResp' = out.response
                /\ UNCHANGED handlers
           ELSE /\ handlers' = handlers (+) SetToBag({
                       Suspension(out.pc, request, out.session, out.filename,
                                  out.quality, out.target)})
                /\ UNCHANGED lastResp
        /\ UNCHANGED <<now, nticks, lastWrite, served>>
        /\ UNCHANGED <<codecVars, rwVars>>

\* a client sends a request
Receive ==
    /\ \E request \in Requests : ReceiveRequest(request)
    /\ expected' = <<>>

\* the directory of a URL: the text up to and including the last '/'
Dir(url) == SubSeq(url, 1, LastIndexOf(url, Slash))

\* a client that got a rewritten playlist requests one of its proxy URLs;
\* expected is the URL the line it stands for denotes at the origin
Follow ==
    /\ lastResp.kind = "playlist"
    /\ \E i \in 1..Len(Lines(lastResp.data)) :
          LET line == Lines(lastResp.data)[i]
          IN  /\ StartsWith(line, ProxyOrigin \o <<Slash>>)
              /\ ReceiveRequest(Get(SubSeq(line, Len(ProxyOrigin) + 1, Len(line))))
              /\ expected' = Dir(served.target) \o Lines(served.body)[i]

\* request.json() of a store-session request settles
JsonSettled ==
    /\ \E h \in Waiting :
          /\ h.pc = "json"
          /\ LET out == storeSessionBody(h.request, sessionStore, now)
             IN  /\ sessionStore' = out.store
                 /\ lastResp' = out.response
                 /\ lastWrite' = IF out.response.status = 200
                                 THEN [lastWrite EXCEPT ![h.request.sessionId] =
                                         SessionRecord(h.request.originalUrl,
                                                       h.request.metadata, now)]
                                 ELSE lastWrite
          /\ handlers' = handlers (-) SetToBag({h})
    /\ UNCHANGED <<now, nticks, lastReq, nreq, served, expected>>
    /\ UNCHANGED <<codecVars, rwVars>>

\* the upstream fetch of proxyVideoSegment settles
SegmentFetched ==
    /\ \E h \in Waiting :
          /\ h.pc = "fetchSegment"
          /\ \E upstream \in {"ok", "status", "failed"} :
                lastResp' = segmentResponse(h.filename, upstream)
          /\ handlers' = handlers (-) SetToBag({h})
    /\ UNCHANGED <<sessionStore, now, nticks, lastReq, nreq, lastWrite, served, expected>>
    /\ UNCHANGED <<codecVars, rwVars>>

\* the upstream fetch of proxyM3U8Playlist settles with an ok status
PlaylistFetched ==
    /\ \E h \in Waiting :
          /\ h.pc = "fetchPlaylist"
          /\ handlers' = (handlers (-) SetToBag({h})) (+) SetToBag({[h EXCEPT !.pc = "text"]})
    /\ UNCHANGED <<sessionStore, now, nticks, lastReq, lastResp, nreq, lastWrite, served,
                   expected>>
    /\ UNCHANGED <<codecVars, rwVars>>

\* the upstream fetch of proxyM3U8Playlist fails or answers with an error
\* status, or response.text() fails
PlaylistFailed ==
    /\ \E h \in Waiting :
          /\ h.pc \in {"fetchPlaylist", "text"}
          /\ lastResp' = playlistError(h.filename)
          /\ handlers' = handlers (-) SetToBag({h})
    /\ UNCHANGED <<sessionStore, now, nticks, lastReq, nreq, lastWrite, served, expected>>
    /\ UNCHANGED <<codecVars, rwVars>>

\* response.text() settles and the playlist is rewritten
PlaylistText ==
    /\ \E h \in Waiting :
          /\ h.pc = "text"
          /\ \E originalPlaylist \in UpstreamPlaylists :
                /\ lastResp' = playlistResponse(originalPlaylist, h.filename, h.quality,
                                                Split(h.request.path, Slash)[3],
                                                ProxyOrigin)
                /\ served' = [target |-> h.target, body |-> originalPlaylist]
          /\ handlers' = handlers (-) SetToBag({h})
    /\ UNCHANGED <<sessionStore, now, nticks, lastReq, nreq, lastWrite, expected>>
    /\ UNCHANGED <<codecVars, rwVars>>

\* Date.now() advances: to the end of the lifetime of a session stored now,
\* or just past it
Tick ==
    /\ nticks < MaxTicks
    /\ \E d \in {SessionTTL, SessionTTL + 1} : now' = now + d
    /\ nticks' = nticks + 1
    /\ UNCHANGED <<sessionStore, handlers, lastReq, lastResp, nreq, lastWrite, served, expected>>
    /\ UNCHANGED <<codecVars, rwVars>>

Init == CodecIdle /\ RwIdle /\ MainIdle

Next ==
    \/ Receive
    \/ Follow
    \/ JsonSettled
    \/ SegmentFetched
    \/ PlaylistFetched
    \/ PlaylistFailed
    \/ PlaylistText
    \/ Tick

Spec == Init /\ [][Next]_vars

(***************************************************************************)
(* Properties of the worker.                                               *)
(***************************************************************************)
\* the step is the arrival of a request
Arrived == nreq' = nreq + 1

\* the request that arrives is answered in the same step
AnsweredAtOnce == Arrived /\ handlers' = handlers

\* the step issues an upstream fetch: a handler is left suspended on one
FetchIssued ==
    \E h \in BagToSet(handlers') :
       /\ h.pc \in {"fetchSegment", "fetchPlaylist"}
       /\ CopiesIn(h, handlers') > CopiesIn(h, handlers)

PathParts(request) == Split(request.path, Slash)

\* a request the router hands to handleDatacrateProxy
IsProxyRequest(request) ==
    /\ request.method # "OPTIONS"
    /\ StartsWith(request.path, S_file2)

\* the tokens of the path decode
TokensDecode(request) ==
    /\ Decode(PathParts(request)[4]).ok
    /\ Decode(ReplaceFirst(PathParts(request)[5], S_m3u8)).ok

\* the id is not stored, or is stored and its lifetime has passed at time t
SessionDead(store, sessionId, t) ==
    \/ store[sessionId] = NoSession
    \/ t > store[sessionId].expiresAt

\* the 404 answer of the step for a dead session: no fetch, no session left
DeadSessionAnswer(sessionId) ==
    /\ AnsweredAtOnce
    /\ lastResp'.status = 404
    /\ lastResp'.kind = "Session not found or expired"
    /\ ~FetchIssued
    /\ sessionStore'[sessionId] = NoSession
    /\ \A s \in AllSids : s # sessionId => sessionStore'[s] = sessionStore[s]

C6_DecodeBeforeLookup ==
    [][(/\ Arrived
        /\ IsProxyRequest(lastReq')
        /\ Len(PathParts(lastReq')) >= 5
        /\ ~TokensDecode(lastReq'))
       => (/\ AnsweredAtOnce
           /\ lastResp'.status = 400
           /\ lastResp'.kind = "Failed to decode URL"
           /\ sessionStore' = sessionStore
           /\ ~FetchIssued)]_vars

\* a request with an undecodable token has been answered 400 while the
\* session it names is stored and expired, and the entry is still there
C6_Witness ==
    /\ lastResp.kind = "Failed to decode URL"
    /\ IsProxyRequest(lastReq)
    /\ Len(PathParts(lastReq)) >= 5
    /\ ~TokensDecode(lastReq)
    /\ sessionStore[PathParts(lastReq)[3]] # NoSession
    /\ now > sessionStore[PathParts(lastReq)[3]].expiresAt

\* a record as one storeSession call writes it
IsCompleteRecord(r) ==
    \E w \in StoreRequests :
       /\ w.json = "object"
       /\ w.sessionId # <<>>
       /\ w.originalUrl # <<>>
       /\ r = SessionRecord(w.originalUrl, w.metadata, r.timestamp)

\* C7: under every interleaving the store holds, for an id, the complete
\* record of the latest write, and a handler that read the id holds one
\* complete record of a single write.
C7_LastWriterWins ==
    /\ \A s \in AllSids :
          sessionStore[s] # NoSession
          => (sessionStore[s] = lastWrite[s] /\ IsCompleteRecord(sessionStore[s]))
    /\ \A h \in Waiting :
          h.pc \in {"fetchSegment", "fetchPlaylist", "text"} => IsCompleteRecord(h.session)

\* two writes of the same id with different URLs have happened around a
\* read: the reader holds the record of the first, the store that of the
\* second
C7_Witness ==
    \E h \in Waiting :
       /\ h.pc = "fetchSegment"
       /\ sessionStore[SidA] # NoSession
       /\ h.session.originalUrl # sessionStore[SidA].originalUrl

\* C8: every response has passed through addCorsHeaders, and an OPTIONS
\* request to any path is answered 200 without a body, the store and the
\* upstream untouched.
C8_CorsEverywhere ==
    /\ [](lastResp # NoResponse => lastResp.cors)
    /\ [][(Arrived /\ lastReq'.method = "OPTIONS")
          => (/\ AnsweredAtOnce
              /\ lastResp' = addCorsHeaders(NewResponse(200, "null", <<>>))
              /\ sessionStore' = sessionStore
              /\ ~FetchIssued)]_vars

\* an OPTIONS request to a path that is no route has been answered while an
\* expired session sits in the store
C8_Witness ==
    /\ lastReq = Options(<<Slash, 42>>)
    /\ lastResp.kind = "null"
    /\ lastResp.cors
    /\ sessionStore[SidA] # NoSession
    /\ now > sessionStore[SidA].expiresAt

\* C9: the sessionPath field of the 404 body is not the full session id and
\* does not contain it.
C9_NoFullSessionId ==
    [][(AnsweredAtOnce /\ lastResp'.kind = "Session not found or expired")
       => (/\ lastResp'.data # PathParts(lastReq')[3]
           /\ ~Includes(lastResp'.data, PathParts(lastReq')[3]))]_vars

\* C10: the URL fetched for a segment whose proxy URL was taken from a
\* rewritten media playlist is the URL its original reference denotes at the
\* origin, in the directory of the media playlist the proxy fetched.
C10_SegmentReResolved ==
    \A h \in Waiting :
       (h.pc = "fetchSegment" /\ expected # <<>> /\ h.request = lastReq)
       => h.target = expected

InitCodec == CodecIdle /\ RwIdle /\ MainIdle

NextCodec ==
    \/ CodecInput
    \/ CodecEncode
    \/ CodecDecode

SpecCodec == InitCodec /\ [][NextCodec]_vars

\* C1: decoding the encoded token returns the string, for every ASCII string
\* without NUL of every length.
C1_RoundTrip == cpc = "decoded" => (cdec.ok /\ cdec.val = cs)

\* the round trip does hold for the strings of a length that is 1 mod 3
\* ('720p', 'index.m3u8', 'unknown')
C1_RoundTripLen1Mod3 ==
    (cpc = "decoded" /\ Len(cs) % 3 = 1) => (cdec.ok /\ cdec.val = cs)

\* for every other length the decode fails: the token with '==' appended has
\* a length of 2 mod 4 (the '=' stay) or of 1 mod 4
C1_OtherLengthsFail ==
    (cpc = "decoded" /\ Len(cs) % 3 # 1) => ~cdec.ok
====
